---- MODULE Spec2Model ----
(***************************************************************************)
(* The IPC server process of the runtime service: the main loop of         *)
(* ipc_server_process.c (check_epoll, handle_listen, _update_layers,       *)
(* main_loop, teardown_all), the layer renderer it drives                  *)
(* (comp_layer_renderer_allocate_layers / destroy_layers / draw) and the   *)
(* per-client worker thread that feeds it.                                 *)
(*                                                                         *)
(* The main thread and the worker threads are interleaved at the           *)
(* granularity of their accesses to the shared, volatile client state:     *)
(* every read of render_state.num_layers, render_state.layers[i] and       *)
(* render_state.rendering by the main thread is a step of its own, and so  *)
(* is every write of them by a worker.                                     *)
(***************************************************************************)
EXTENDS Integers, Sequences, FiniteSets, TLC

(* ---- bounds of the model ---- *)

\* connections that clients open during a run
MaxConn == 2
\* frames that clients submit during a run
MaxFrames == 3
\* layers a submitted frame may carry
MaxLayers == 2
\* swapchain slots of the session (xscs[])
NumSlots == 2

\* what accept returns on failure, and listen_socket once closed
NoFd == 0 - 1
\* the fd check_epoll takes for stdin
StdinFd == 0
\* the listener's fd: the first descriptor above stdin, stdout and stderr
ListenFd == StdinFd + 3
\* accept hands out the descriptors above the listener's
FirstClientFd == ListenFd + 1

Slots == 0 .. (NumSlots - 1)
LayerIdx == 0 .. (MaxLayers - 1)
\* one thread per handle_listen call that starts one; a failed accept ends
\* the loop, so at most one start happens without a connection
Tids == 1 .. (MaxConn + 1)

VARIABLES
    s,      \* struct ipc_server: the fields the main loop and the workers share
    cs,     \* s->thread_state, the one struct ipc_client_state
    m,      \* the main thread: position and locals of main_loop
    w,      \* the worker threads started so far, by thread id
    r,      \* the layer renderer c->r: layer_count and layers[]
    env,    \* the kernel and the clients: pending connections, open fds
    h,      \* history of the current iteration and of the run (observers)
    cat,    \* init_tracking_origins and init_shm applied to a device array
    clr     \* comp_layer_renderer_destroy applied to a layer renderer

vars == <<s, cs, m, w, r, env, h, cat, clr>>

(* ---- layer descriptors ---- *)

\* struct ipc_layer_render_state, as far as _update_layers reads it: the type
\* tag and the swapchain ids. "other" is any tag the switch has no case for.
Desc(t, a, b) == [type |-> t, sc0 |-> a, sc1 |-> b]

Descs ==
    { Desc("proj", 0, NumSlots - 1), Desc("quad", 0, 0), Desc("other", 0, 0) }

\* a zero-filled descriptor (the server is U_TYPED_CALLOC'ed): tag 0, ids 0
ZeroDesc == Desc("proj", 0, 0)

\* a cell of render_state.layers[]: the descriptor and, as an observer, the
\* frame that wrote it: "latest" (the frame submitted last), "older" (a frame
\* submitted before that one) or "never"
Cell(d, age) == [d |-> d, age |-> age]

\* a newer frame is being submitted: what is in the cells is of older frames
Aged(layers) ==
    [i \in DOMAIN layers |->
        Cell(layers[i].d, IF layers[i].age = "never" THEN "never" ELSE "older")]

(* ---- the layer renderer ---- *)

\* comp_layer_renderer_allocate_layers: layer_count layers, freshly created
comp_layer_renderer_allocate_layers(rr, layer_count) ==
    [rr EXCEPT !.layer_count = layer_count,
               !.leaked = rr.leaked \/ rr.layer_count # 0]

\* comp_layer_renderer_destroy_layers: every layer destroyed, count 0
comp_layer_renderer_destroy_layers(rr) ==
    [rr EXCEPT !.layer_count = 0]

\* comp_layer_renderer_draw: the clear colour of the frame
background_color(layer_count) ==
    IF layer_count = 0 THEN "idle" ELSE "active"

\* comp_renderer_set_projection_layer / comp_renderer_set_quad_layer on layer
\* i: layers[i] of the renderer is updated. The array holds layer_count
\* entries; an index past it is outside the allocation.
InBounds(rr, i) == i < rr.layer_count


(* ---- the runs that are explored ---- *)

\* A run is given the two options init_all reads (IPC_EXIT_ON_DISCONNECT,
\* socket activation) and what its clients will do at most: how many
\* connections they open and how many frames they submit. Every combination
\* of the options is explored; the long frame sequences are explored with a
\* single connection, the connection sequences with a single frame or none.
\* path says what is at the socket path when the server starts: nothing, or
\* the socket of somebody else (the supervisor's, or a running instance's).
Run(eod, lbs, conns, frames, path) ==
    [exit_on_disconnect |-> eod, launched_by_socket |-> lbs,
     conns |-> conns, frames |-> frames, sock_file |-> path]

(* ---- what the server holds ---- *)

\* the objects, descriptors and allocations init_all acquires
ResNames ==
    {"instance", "devices", "compositor", "shm_fd", "shm_map",
     "listen", "sock_name", "epoll", "wait", "uvar"}

\* a destructor, close, munmap or free: right on something that is held
Release(st) == IF st = "live" THEN "released" ELSE "bad"

\* s->listen_socket = -1, after close(s->listen_socket)
ClosedListenSocket_mut(fd) == fd

ClosedListenSocket(fd) == NoFd

\* if (s->listen_socket > 0)
HasListenSocket(ss) == ss.listen_socket > 0

\* if (!s->launched_by_socket && s->socket_filename), inside the former
UnlinksSocket(ss) ==
    HasListenSocket(ss) /\ ~ss.launched_by_socket /\ ss.socket_filename

\* teardown_all, on the fields of struct ipc_server: every destroy helper
\* takes the address of the field and leaves it NULL
TeardownS(ss) ==
    [ss EXCEPT !.iw = FALSE,
               !.xc = FALSE,
               !.xdevs = {},
               !.xinst = FALSE,
               !.listen_socket =
                   IF HasListenSocket(ss) THEN ClosedListenSocket(@) ELSE @,
               !.socket_filename = IF UnlinksSocket(ss) THEN FALSE ELSE @,
               !.torn_down = TRUE]

\* teardown_all, on what the fields refer to
TeardownEnv(ss, e) ==
    LET k0 == e.k
        k1 == [k0 EXCEPT !["uvar"] = IF @ = "live" THEN "released" ELSE @]
        k2 == IF ss.iw THEN [k1 EXCEPT !["wait"] = Release(@)] ELSE k1
        k3 == IF ss.xc THEN [k2 EXCEPT !["compositor"] = Release(@)] ELSE k2
        k4 == IF ss.xdevs # {} THEN [k3 EXCEPT !["devices"] = Release(@)] ELSE k3
        k5 == IF ss.xinst THEN [k4 EXCEPT !["instance"] = Release(@)] ELSE k4
        k6 == IF HasListenSocket(ss) THEN [k5 EXCEPT !["listen"] = Release(@)] ELSE k5
        k7 == IF UnlinksSocket(ss) THEN [k6 EXCEPT !["sock_name"] = Release(@)] ELSE k6
    IN  [e EXCEPT !.k = k7,
                  !.sock_file = IF UnlinksSocket(ss) THEN "absent" ELSE @,
                  !.unlinked = IF UnlinksSocket(ss) THEN e.sock_file ELSE @]

Runs ==
    { Run(FALSE, TRUE, 1, MaxFrames, "other"),
      Run(TRUE, FALSE, MaxConn, 1, "absent"),
      Run(FALSE, FALSE, MaxConn, 0, "absent"),
      Run(TRUE, TRUE, 1, 1, "other"),
      Run(FALSE, FALSE, 0, 0, "other") }

(* ---- initial state: ipc_server_main has allocated the server (calloc), ---- *)
(* ---- init_all has set running and read IPC_EXIT_ON_DISCONNECT         ---- *)

\* the server after U_TYPED_CALLOC and the first lines of init_all
NewServer(run) ==
    [ running |-> TRUE,
      exit_on_disconnect |-> run.exit_on_disconnect,
      launched_by_socket |-> FALSE,
      listen_socket |-> 0,
      socket_filename |-> FALSE,
      xinst |-> FALSE, xdevs |-> {}, xcfd |-> FALSE,
      xc |-> FALSE, ism |-> FALSE, ism_fd |-> FALSE,
      epoll_fd |-> FALSE, iw |-> FALSE,
      thread_started |-> FALSE,
      thread_stopping |-> FALSE,
      thread |-> 0,
      torn_down |-> FALSE ]

\* the kernel, the file system and the clients of a run
NewEnv(run) ==
    [ pending |-> 0, conns |-> run.conns, next_fd |-> FirstClientFd,
      open |-> {}, closed |-> {}, threads |-> 0,
      frames |-> run.frames,
      supervisor |-> run.launched_by_socket,
      k |-> [x \in ResNames |-> "none"],
      shm_name |-> FALSE,
      sock_file |-> run.sock_file,
      unlinked |-> "none",
      listen_fds |-> NoFd,
      shm_fault |-> "none",
      registered |-> {} ]

\* s->thread_state, zero-filled
NewSession ==
    [ ipc_socket_fd |-> 0,
      active |-> FALSE,
      num_swapchains |-> 0,
      xscs |-> [k \in Slots |-> FALSE],
      rendering |-> FALSE,
      num_layers |-> 0,
      layers |-> [i \in LayerIdx |-> Cell(ZeroDesc, "never")] ]

\* the main thread has entered init_all
NewMain ==
    [ pc |-> "init_instance", num_layers |-> 0, i |-> 0, evs |-> <<>>,
      fd |-> NoFd, ret |-> 0 ]

\* no worker thread exists
NewWorkers ==
    [t \in Tids |-> [pc |-> "unborn", n |-> 0, i |-> 0,
                     num_done |-> FALSE, order |-> "num_first"]]

\* the renderer holds no layers
NewRenderer ==
    [ layer_count |-> 0, leaked |-> FALSE ]

\* nothing has been observed
NewHistory ==
    [ draws |-> 0, colour |-> "none",
      branch |-> "none", reconcile |-> "none", cleared |-> FALSE,
      first_n |-> 0, resized |-> FALSE,
      saw_latest |-> FALSE, fail_streak |-> 0,
      fatal |-> "none", teardowns |-> 0, failed_at |-> "none",
      last_set |-> "none", past_xscs |-> FALSE ]

ServerInit(run) ==
    /\ s = NewServer(run)
    /\ env = NewEnv(run)
    /\ cs = NewSession
    /\ m = NewMain
    /\ w = NewWorkers
    /\ r = NewRenderer
    /\ h = NewHistory

\* the server as a whole: the device array and the renderer are those of
\* the scenario, summarised in s.xdevs and r
Init ==
    /\ \E run \in Runs : ServerInit(run)
    /\ cat = [pc |-> "unused"]
    /\ clr = [pc |-> "unused"]

(* ---- observers ---- *)

\* the per-iteration part of the history, cleared when an iteration begins
NewIteration(hh) ==
    [hh EXCEPT !.draws = 0, !.colour = "none",
               !.branch = "none", !.reconcile = "none", !.cleared = FALSE,
               !.first_n = 0, !.resized = FALSE]

\* comp_renderer_draw followed by comp_compositor_garbage_collect
Drawn(hh, rr) ==
    [hh EXCEPT !.draws = hh.draws + 1,
               !.colour = background_color(rr.layer_count),
               !.fail_streak = 0]

\* the client acted: what the next reconciliation sees may have changed
ClientActed(hh) == [hh EXCEPT !.fail_streak = 0]

(* ---- main thread: init_all ---- *)

\* a step of init_all failed: teardown_all(s); return ret; and
\* ipc_server_main frees the server and returns ret
InitFails(s0, e0, step) ==
    /\ s' = TeardownS(s0)
    /\ env' = TeardownEnv(s0, e0)
    /\ m' = [m EXCEPT !.pc = "done", !.ret = 0 - 1]
    /\ h' = [h EXCEPT !.failed_at = step, !.teardowns = h.teardowns + 1]
    /\ UNCHANGED <<cs, w, r>>

\* a step of init_all succeeded: on to the next one
InitGoes(s1, e1, next) ==
    /\ s' = s1
    /\ env' = e1
    /\ m' = [m EXCEPT !.pc = next]
    /\ UNCHANGED <<cs, w, r, h>>

\* xrt_instance_create(&s->xinst)
init_instance ==
    /\ m.pc = "init_instance"
    /\ \/ InitFails(s, env, "instance")
       \/ InitGoes([s EXCEPT !.xinst = TRUE],
                   [env EXCEPT !.k["instance"] = "live"], "init_select")
    /\ UNCHANGED <<cat, clr>>

\* what xrt_instance_select may leave in s->xdevs[]: no device, a device
\* that is not in slot 0, or the head-mounted display and a controller
Selections == { {}, {1}, {0, 1} }

\* xrt_instance_select, then the test of s->xdevs[0]
init_select ==
    /\ m.pc = "init_select"
    /\ \/ InitFails(s, env, "select")
       \/ \E devs \in Selections :
            LET s1 == [s EXCEPT !.xdevs = devs]
                e1 == [env EXCEPT !.k["devices"] =
                                     IF devs = {} THEN "none" ELSE "live"]
            IN  IF 0 \in devs
                  THEN InitGoes(s1, e1, "init_tracking")
                  ELSE InitFails(s1, e1, "xdevs0")
    /\ UNCHANGED <<cat, clr>>

\* init_tracking_origins: it returns 0 on every path
init_tracking_origins ==
    /\ m.pc = "init_tracking"
    /\ InitGoes(s, env, "init_compositor")
    /\ UNCHANGED <<cat, clr>>

\* xrt_instance_create_fd_compositor(s->xinst, s->xdevs[0], false, &s->xcfd)
init_compositor ==
    /\ m.pc = "init_compositor"
    /\ \/ InitFails(s, env, "compositor")
       \/ InitGoes([s EXCEPT !.xcfd = TRUE],
                   [env EXCEPT !.k["compositor"] = "live"], "init_shm")
    /\ UNCHANGED <<cat, clr>>

\* init_shm: shm_open, ftruncate, mmap, shm_unlink. mmap reports failure
\* with MAP_FAILED, which the test against NULL lets through: the name is
\* unlinked and the first store through s->ism faults.
init_shm ==
    /\ m.pc = "init_shm"
    /\ \/ \* shm_open fails
          InitFails(s, [env EXCEPT !.shm_fault = "shm_open"], "shm")
       \/ \* ftruncate fails: close(fd); return -1
          InitFails(s, [env EXCEPT !.shm_name = TRUE,
                                   !.k["shm_fd"] = "released",
                                   !.shm_fault = "ftruncate"], "shm")
       \/ \* mmap fails
          /\ env' = [env EXCEPT !.shm_name = FALSE, !.k["shm_fd"] = "live",
                                !.shm_fault = "mmap"]
          /\ s' = [s EXCEPT !.ism = TRUE, !.ism_fd = TRUE]
          /\ m' = [m EXCEPT !.pc = "crashed"]
          /\ UNCHANGED <<cs, w, r, h>>
       \/ InitGoes([s EXCEPT !.ism = TRUE, !.ism_fd = TRUE],
                   [env EXCEPT !.shm_name = FALSE,
                               !.k["shm_fd"] = "live",
                               !.k["shm_map"] = "live"], "init_listen")
    /\ UNCHANGED <<cat, clr>>

\* what sd_listen_fds(0) can return: no fd without a supervisor, one fd or
\* a misconfigured pair with one
ListenFds(supervisor) == IF supervisor THEN {1, 2} ELSE {0}

\* get_systemd_socket: if (num_fds > 1) return -1
TooManyFds_mut(num_fds) == num_fds > 2

TooManyFds(num_fds) == num_fds > 1

\* init_listen_socket: get_systemd_socket, else create_listen_socket
init_listen_socket ==
    /\ m.pc = "init_listen"
    /\ \E num_fds \in ListenFds(env.supervisor) :
       LET s0 == [s EXCEPT !.listen_socket = NoFd]
           e0 == [env EXCEPT !.listen_fds = num_fds]
       IN  IF TooManyFds(num_fds)
             THEN InitFails(s0, e0, "listen")
           ELSE IF num_fds = 1
             THEN \* one fd passed: SD_LISTEN_FDS_START
                  InitGoes([s0 EXCEPT !.launched_by_socket = TRUE,
                                      !.listen_socket = ListenFd],
                           [e0 EXCEPT !.k["listen"] = "live"], "init_epoll")
             ELSE \/ \* socket fails
                     InitFails(s0, e0, "listen")
                  \/ \* bind fails: close(fd)
                     InitFails(s0, [e0 EXCEPT !.k["listen"] = "released"],
                               "listen")
                  \/ \* bind succeeds, the path is recorded; listen fails:
                     \* close(fd)
                     /\ env.sock_file = "absent"
                     /\ InitFails([s0 EXCEPT !.socket_filename = TRUE],
                                  [e0 EXCEPT !.sock_file = "ours",
                                             !.k["sock_name"] = "live",
                                             !.k["listen"] = "released"],
                                  "listen")
                  \/ /\ env.sock_file = "absent"
                     /\ InitGoes([s0 EXCEPT !.socket_filename = TRUE,
                                            !.listen_socket = ListenFd],
                                 [e0 EXCEPT !.sock_file = "ours",
                                            !.k["sock_name"] = "live",
                                            !.k["listen"] = "live"],
                                 "init_epoll")
    /\ UNCHANGED <<cat, clr>>

\* init_epoll: epoll_create1, epoll_ctl for stdin unless launched by socket
\* activation, epoll_ctl for the listener
\* if (!s->launched_by_socket): stdin is added to the epoll set
RegistersStdin_mut(launched_by_socket) == TRUE

RegistersStdin(launched_by_socket) == ~launched_by_socket

\* the fds init_epoll adds with epoll_ctl
Registered(ss) ==
    (IF RegistersStdin(ss.launched_by_socket) THEN {StdinFd} ELSE {}) \cup
    {ss.listen_socket}

init_epoll ==
    /\ m.pc = "init_epoll"
    /\ \/ \* epoll_create1 fails
          InitFails(s, env, "epoll")
       \/ \* one of the epoll_ctl calls fails
          InitFails([s EXCEPT !.epoll_fd = TRUE],
                    [env EXCEPT !.k["epoll"] = "live"], "epoll")
       \/ InitGoes([s EXCEPT !.epoll_fd = TRUE],
                   [env EXCEPT !.k["epoll"] = "live",
                               !.registered = Registered(s)], "init_wait")
    /\ UNCHANGED <<cat, clr>>

\* ipc_server_wait_alloc, then the rest of init_all: s->xc, u_var_add_root
init_wait ==
    /\ m.pc = "init_wait"
    /\ \/ InitFails(s, env, "wait")
       \/ InitGoes([s EXCEPT !.iw = TRUE, !.xc = TRUE],
                   [env EXCEPT !.k["wait"] = "live", !.k["uvar"] = "live"],
                   "while")
    /\ UNCHANGED <<cat, clr>>

(* ---- main thread: main_loop ---- *)

\* while (vs->running)
LoopContinues(running) == running

main_loop_while ==
    /\ m.pc = "while"
    /\ IF LoopContinues(s.running)
         THEN /\ m' = [m EXCEPT !.pc = "check_epoll"]
              /\ h' = NewIteration(h)
         ELSE /\ m' = [m EXCEPT !.pc = "returned"]
              /\ h' = h
    /\ UNCHANGED <<s, cs, w, r, env>>
    /\ UNCHANGED <<cat, clr>>

\* the fds epoll_wait can report, all of them in the epoll set: stdin when
\* the operator typed something or closed it, the listener while a
\* connection is pending (level-triggered)
ReadyFds(stdin_ready) ==
    ((IF stdin_ready THEN {StdinFd} ELSE {}) \cup
     (IF env.pending > 0 THEN {s.listen_socket} ELSE {})) \cap env.registered

\* every order in which epoll_wait may report the fds of a set
Orders(S) ==
    IF S = {} THEN { <<>> }
    ELSE IF Cardinality(S) = 1 THEN { <<x>> : x \in S }
    ELSE { <<x, y>> : x \in S, y \in S } \ { <<x, x>> : x \in S }

check_epoll ==
    /\ m.pc = "check_epoll"
    /\ \/ \* epoll_wait fails
          /\ s' = [s EXCEPT !.running = FALSE]
          /\ m' = [m EXCEPT !.pc = "render"]
          /\ h' = [h EXCEPT !.fatal = "epoll"]
       \/ \E stdin_ready \in BOOLEAN :
          \E evs \in Orders(ReadyFds(stdin_ready)) :
             /\ m' = [m EXCEPT !.pc = "events", !.evs = evs]
             /\ s' = s
             /\ h' = h
    /\ UNCHANGED <<cs, w, r, env>>
    /\ UNCHANGED <<cat, clr>>

\* the for loop of check_epoll, for an event that is not the listener's
check_epoll_event ==
    /\ m.pc = "events"
    /\ \/ /\ m.evs = <<>>
          /\ m' = [m EXCEPT !.pc = "render"]
          /\ s' = s
       \/ /\ m.evs # <<>>
          /\ Head(m.evs) = StdinFd
          /\ s' = [s EXCEPT !.running = FALSE]
          /\ m' = [m EXCEPT !.pc = "render", !.evs = <<>>]
    /\ UNCHANGED <<cs, w, r, env, h>>
    /\ UNCHANGED <<cat, clr>>

\* if (vs->thread_started && !vs->thread_stopping)
ClientAlreadyConnected_mut(thread_started, thread_stopping) == FALSE

ClientAlreadyConnected_mut2(thread_started, thread_stopping) == thread_started

ClientAlreadyConnected(thread_started, thread_stopping) ==
    thread_started /\ ~thread_stopping

\* close(fd): a valid fd is closed, close(-1) fails with EBADF
close_mut(e, fd) == e

close(e, fd) ==
    IF fd \in e.open
      THEN [e EXCEPT !.open = e.open \ {fd}, !.closed = e.closed \cup {fd}]
      ELSE e

\* the tail of handle_listen: thread_started, ipc_socket_fd, os_thread_start
StartThread(ss, fd) ==
    [ss EXCEPT !.thread_started = TRUE, !.thread = env.threads + 1]

Started(ww) ==
    [ww EXCEPT ![env.threads + 1].pc = "handshake"]

\* if (ret < 0) { ...; vs->running = false; }
AfterAccept_mut(running, ret) == running

AfterAccept(running, ret) == IF ret < 0 THEN FALSE ELSE running

handle_listen ==
    /\ m.pc = "events"
    /\ m.evs # <<>>
    /\ Head(m.evs) = s.listen_socket
    /\ \E ret \in {env.next_fd, NoFd} :
       /\ LET accepted == ret # NoFd
              s1 == [s EXCEPT !.running = AfterAccept(s.running, ret)]
              e1 == IF accepted
                      THEN [env EXCEPT !.pending = env.pending - 1,
                                       !.next_fd = env.next_fd + 1,
                                       !.open = env.open \cup {ret}]
                      ELSE env
          IN  IF ClientAlreadyConnected(s.thread_started, s.thread_stopping)
                THEN /\ env' = close(e1, ret)
                     /\ s' = s1
                     /\ m' = [m EXCEPT !.evs = Tail(m.evs)]
                     /\ UNCHANGED <<cs, w>>
              ELSE IF s.thread_stopping
                THEN \* os_thread_join blocks until the worker has returned
                     /\ env' = e1
                     /\ s' = s1
                     /\ m' = [m EXCEPT !.pc = "join", !.fd = ret]
                     /\ UNCHANGED <<cs, w>>
              ELSE /\ s' = StartThread(s1, ret)
                   /\ cs' = [cs EXCEPT !.ipc_socket_fd = ret]
                   /\ w' = Started(w)
                   /\ env' = [e1 EXCEPT !.threads = env.threads + 1]
                   /\ m' = [m EXCEPT !.evs = Tail(m.evs)]
       /\ h' = IF ret # NoFd THEN h ELSE [h EXCEPT !.fatal = "accept"]
    /\ UNCHANGED r
    /\ UNCHANGED <<cat, clr>>

\* os_thread_join, os_thread_destroy, thread_stopping = false, then the tail
handle_listen_join ==
    /\ m.pc = "join"
    /\ w[s.thread].pc = "exited"
    /\ s' = StartThread([s EXCEPT !.thread_stopping = FALSE], m.fd)
    /\ cs' = [cs EXCEPT !.ipc_socket_fd = m.fd]
    /\ w' = Started([w EXCEPT ![s.thread].pc = "joined"])
    /\ env' = [env EXCEPT !.threads = env.threads + 1]
    /\ m' = [m EXCEPT !.pc = "events", !.evs = Tail(m.evs), !.fd = NoFd]
    /\ UNCHANGED <<r, h>>
    /\ UNCHANGED <<cat, clr>>

\* if (active_client == NULL || !active_client->active ||
\*     active_client->num_swapchains == 0)
NoClientToRender(active, num_swapchains) ==
    ~active \/ num_swapchains = 0

\* the idle branch: if (num_layers != 0) destroy the layers, num_layers = 0
IdleLayers(rr, num_layers) ==
    IF num_layers # 0 THEN comp_layer_renderer_destroy_layers(rr) ELSE rr

\* the body of the loop after check_epoll, up to the call of _update_layers:
\* without a client to render, or with one that has no frame pending, the
\* iteration draws and ends here
main_loop_render ==
    /\ m.pc = "render"
    /\ IF NoClientToRender(cs.active, cs.num_swapchains)
         THEN LET r1 == IdleLayers(r, m.num_layers)
              IN  /\ r' = r1
                  /\ m' = [m EXCEPT !.num_layers = 0, !.pc = "while"]
                  /\ h' = Drawn([h EXCEPT !.branch = "idle"], r1)
         ELSE IF ~cs.rendering
           THEN /\ r' = r
                /\ m' = [m EXCEPT !.pc = "while"]
                /\ h' = Drawn([h EXCEPT !.branch = "waiting"], r)
         ELSE /\ r' = r
              /\ m' = [m EXCEPT !.pc = "upd_cmp"]
              /\ h' = [h EXCEPT !.branch = "rendering", !.reconcile = "started"]
    /\ UNCHANGED <<s, cs, w, env>>
    /\ UNCHANGED <<cat, clr>>

(* ---- main thread: _update_layers ---- *)

\* if (*num_layers != render_state->num_layers)
LayersDiffer(num_layers, incoming) == num_layers # incoming

update_layers_compare ==
    /\ m.pc = "upd_cmp"
    /\ IF LayersDiffer(m.num_layers, cs.num_layers)
         THEN /\ m' = [m EXCEPT !.pc = "upd_assign"]
              /\ h' = [h EXCEPT !.first_n = cs.num_layers, !.resized = TRUE]
         ELSE /\ m' = [m EXCEPT !.pc = "upd_loop", !.i = 0]
              /\ h' = [h EXCEPT !.first_n = cs.num_layers]
    /\ UNCHANGED <<s, cs, w, r, env>>
    /\ UNCHANGED <<cat, clr>>

\* *num_layers = render_state->num_layers; comp_renderer_destroy_layers(c->r);
update_layers_assign ==
    /\ m.pc = "upd_assign"
    /\ m' = [m EXCEPT !.num_layers = cs.num_layers, !.pc = "upd_alloc"]
    /\ r' = comp_layer_renderer_destroy_layers(r)
    /\ UNCHANGED <<s, cs, w, env, h>>
    /\ UNCHANGED <<cat, clr>>

\* comp_renderer_allocate_layers(c->r, render_state->num_layers);
update_layers_allocate ==
    /\ m.pc = "upd_alloc"
    /\ r' = comp_layer_renderer_allocate_layers(r, cs.num_layers)
    /\ m' = [m EXCEPT !.pc = "upd_loop", !.i = 0]
    /\ UNCHANGED <<s, cs, w, env, h>>
    /\ UNCHANGED <<cat, clr>>

\* what main_loop does with the result of _update_layers: continue on
\* failure, otherwise clear rendering and draw
AfterUpdateLayers_mut(ok) == "finish"

AfterUpdateLayers(ok) == IF ok THEN "finish" ELSE "while"

\* the history when _update_layers returns
Reconciled(hh, ok) ==
    [hh EXCEPT !.reconcile = IF ok THEN "ok" ELSE "failed",
               !.fail_streak = IF AfterUpdateLayers(ok) = "while"
                                 THEN IF hh.fail_streak < 2 THEN hh.fail_streak + 1 ELSE 2
                                 ELSE hh.fail_streak]

\* for (uint32_t i = 0; i < render_state->num_layers; i++)
update_layers_loop ==
    /\ m.pc = "upd_loop"
    /\ IF m.i < cs.num_layers
         THEN /\ m' = [m EXCEPT !.pc = "upd_layer"]
              /\ h' = [h EXCEPT !.last_set = "none"]
         ELSE /\ m' = [m EXCEPT !.pc = AfterUpdateLayers(TRUE)]
              /\ h' = Reconciled([h EXCEPT !.last_set = "none"], TRUE)
    /\ UNCHANGED <<s, cs, w, r, env>>
    /\ UNCHANGED <<cat, clr>>

\* active_client->xscs[id]: the array has NumSlots elements and the id is
\* not tested; what is read past its end is NULL or not (past)
Slot(xscs, id, past) == IF id \in Slots THEN xscs[id] ELSE past

\* _update_projection_layer / _update_quad_layer: the swapchains the layer
\* names must be there
update_projection_layer(xscs, d, past) ==
    Slot(xscs, d.sc0, past) /\ Slot(xscs, d.sc1, past)

update_quad_layer(xscs, d, past) == Slot(xscs, d.sc0, past)

SwapchainsValid(xscs, d, past) ==
    CASE d.type = "proj" -> update_projection_layer(xscs, d, past)
      [] d.type = "quad" -> update_quad_layer(xscs, d, past)
      [] OTHER -> TRUE

\* whether the tests of the layer read xscs[] past its end: the right id of
\* a projection layer is looked up only if the left swapchain is there
ReadsPast(xscs, d, past) ==
    CASE d.type = "proj" ->
             \/ d.sc0 \notin Slots
             \/ Slot(xscs, d.sc0, past) /\ d.sc1 \notin Slots
      [] d.type = "quad" -> d.sc0 \notin Slots
      [] OTHER -> FALSE

\* the set call the switch makes for a layer of this type
SetCall(type) ==
    CASE type = "proj" -> "proj"
      [] type = "quad" -> "quad"
      [] OTHER -> "none"

\* a layer cell was read and reconciled: of the frame submitted last, or not
Consumed(hh, cell) ==
    [hh EXCEPT !.saw_latest = hh.saw_latest \/ cell.age = "latest"]

\* the body of the for loop: the switch on layer->data.type
update_layers_layer ==
    /\ m.pc = "upd_layer"
    /\ \E past \in BOOLEAN :
       LET cell == cs.layers[m.i]
           d == cell.d
           wild == ReadsPast(cs.xscs, d, past)
           h1 == [Consumed(h, cell) EXCEPT
                     !.past_xscs = h.past_xscs \/ wild]
           h2 == [h1 EXCEPT !.last_set = SetCall(d.type)]
       IN  IF ~SwapchainsValid(cs.xscs, d, past)
             THEN \* return false
                  /\ m' = [m EXCEPT !.pc = AfterUpdateLayers(FALSE), !.i = 0]
                  /\ h' = Reconciled(h1, FALSE)
                  /\ r' = r
           ELSE IF d.type = "other"
             THEN /\ m' = [m EXCEPT !.pc = "upd_loop", !.i = m.i + 1]
                  /\ h' = h2
                  /\ r' = r
           ELSE IF InBounds(r, m.i) /\ ~wild
             THEN /\ m' = [m EXCEPT !.pc = "upd_loop", !.i = m.i + 1]
                  /\ h' = h2
                  /\ r' = r
           ELSE \* what was read past xscs[] is followed as a swapchain, or
                \* layers[i] is stored through past the allocation: the
                \* process goes on with wild data, or dies
                /\ \E next \in {"upd_loop", "crashed"} :
                      m' = [m EXCEPT !.pc = next, !.i = m.i + 1]
                /\ h' = h2
                /\ r' = r
    /\ UNCHANGED <<s, cs, w, env>>
    /\ UNCHANGED <<cat, clr>>

\* render_state->rendering = false; comp_renderer_draw; garbage_collect
main_loop_finish ==
    /\ m.pc = "finish"
    /\ cs' = [cs EXCEPT !.rendering = FALSE]
    /\ m' = [m EXCEPT !.pc = "while", !.i = 0]
    /\ h' = Drawn([h EXCEPT !.cleared = TRUE], r)
    /\ UNCHANGED <<s, w, r, env>>
    /\ UNCHANGED <<cat, clr>>

(* ---- main thread: after main_loop ---- *)

\* main_loop has returned 0: teardown_all(s); free(s); return ret
teardown_all ==
    /\ m.pc = "returned"
    /\ s' = TeardownS(s)
    /\ env' = TeardownEnv(s, env)
    /\ m' = [m EXCEPT !.pc = "done", !.ret = 0]
    /\ h' = [h EXCEPT !.teardowns = h.teardowns + 1]
    /\ UNCHANGED <<cs, w, r>>
    /\ UNCHANGED <<cat, clr>>

(* ---- the clients ---- *)

client_connect ==
    /\ m.pc \notin {"crashed", "done"}
    /\ HasListenSocket(s)
    /\ env.conns > 0
    /\ env' = [env EXCEPT !.conns = env.conns - 1, !.pending = env.pending + 1]
    /\ UNCHANGED <<s, cs, m, w, r, h>>
    /\ UNCHANGED <<cat, clr>>

(* ---- the worker thread of a client ---- *)

\* the process lives until main returns or a fault kills it
Alive == m.pc \notin {"crashed", "done"}

Idle == [pc |-> "serve", n |-> 0, i |-> 0,
         num_done |-> FALSE, order |-> "num_first"]

\* the handshake is done: the session becomes the active client
client_thread_handshake(t) ==
    /\ Alive
    /\ w[t].pc = "handshake"
    /\ cs.ipc_socket_fd # NoFd
    /\ cs' = [cs EXCEPT !.active = TRUE]
    /\ w' = [w EXCEPT ![t].pc = "serve"]
    /\ h' = ClientActed(h)
    /\ UNCHANGED <<s, m, r, env>>
    /\ UNCHANGED <<cat, clr>>

client_thread_swapchain_create(t) ==
    /\ Alive
    /\ w[t].pc = "serve"
    /\ \E k \in Slots :
          /\ ~cs.xscs[k]
          /\ cs' = [cs EXCEPT !.xscs[k] = TRUE,
                              !.num_swapchains = cs.num_swapchains + 1]
    /\ h' = ClientActed(h)
    /\ UNCHANGED <<s, m, w, r, env>>
    /\ UNCHANGED <<cat, clr>>

client_thread_swapchain_destroy(t) ==
    /\ Alive
    /\ w[t].pc = "serve"
    /\ \E k \in Slots :
          /\ cs.xscs[k]
          /\ cs' = [cs EXCEPT !.xscs[k] = FALSE,
                              !.num_swapchains = cs.num_swapchains - 1]
    /\ h' = ClientActed(h)
    /\ UNCHANGED <<s, m, w, r, env>>
    /\ UNCHANGED <<cat, clr>>

\* the client ends a frame: the worker starts to copy it into render_state
client_thread_end_frame(t) ==
    /\ Alive
    /\ w[t].pc = "serve"
    /\ env.frames > 0
    /\ env' = [env EXCEPT !.frames = env.frames - 1]
    /\ \E n \in 0 .. MaxLayers, o \in {"num_first", "layers_first"} :
          w' = [w EXCEPT ![t] = [pc |-> "fill", n |-> n, i |-> 0,
                                 num_done |-> FALSE, order |-> o]]
    /\ cs' = [cs EXCEPT !.layers = Aged(cs.layers)]
    /\ h' = [ClientActed(h) EXCEPT !.saw_latest = FALSE]
    /\ UNCHANGED <<s, m, r>>
    /\ UNCHANGED <<cat, clr>>

client_thread_write_num_layers(t) ==
    /\ Alive
    /\ w[t].pc = "fill"
    /\ ~w[t].num_done
    /\ w[t].order = "num_first" \/ w[t].i = w[t].n
    /\ cs' = [cs EXCEPT !.num_layers = w[t].n]
    /\ w' = [w EXCEPT ![t].num_done = TRUE]
    /\ h' = ClientActed(h)
    /\ UNCHANGED <<s, m, r, env>>
    /\ UNCHANGED <<cat, clr>>

client_thread_write_layer(t) ==
    /\ Alive
    /\ w[t].pc = "fill"
    /\ w[t].i < w[t].n
    /\ w[t].order = "layers_first" \/ w[t].num_done
    /\ \E d \in Descs :
          cs' = [cs EXCEPT !.layers[w[t].i] = Cell(d, "latest")]
    /\ w' = [w EXCEPT ![t].i = w[t].i + 1]
    /\ h' = ClientActed(h)
    /\ UNCHANGED <<s, m, r, env>>
    /\ UNCHANGED <<cat, clr>>

client_thread_publish(t) ==
    /\ Alive
    /\ w[t].pc = "fill"
    /\ w[t].i = w[t].n
    /\ w[t].num_done
    /\ cs' = [cs EXCEPT !.rendering = TRUE]
    /\ w' = [w EXCEPT ![t] = Idle]
    /\ h' = ClientActed(h)
    /\ UNCHANGED <<s, m, r, env>>
    /\ UNCHANGED <<cat, clr>>

\* the client went away, or sent a message that cannot be handled
client_thread_disconnect(t) ==
    /\ Alive
    /\ w[t].pc \in {"handshake", "serve"}
    /\ cs' = [cs EXCEPT !.active = FALSE]
    /\ w' = [w EXCEPT ![t].pc = "stop"]
    /\ h' = ClientActed(h)
    /\ UNCHANGED <<s, m, r, env>>
    /\ UNCHANGED <<cat, clr>>

client_thread_stop(t) ==
    /\ Alive
    /\ w[t].pc = "stop"
    /\ s' = [s EXCEPT !.thread_stopping = TRUE,
                      !.running = IF s.exit_on_disconnect THEN FALSE ELSE s.running]
    /\ w' = [w EXCEPT ![t].pc = "exit"]
    /\ UNCHANGED <<cs, m, r, env, h>>
    /\ UNCHANGED <<cat, clr>>

\* the thread function returns
client_thread_exit(t) ==
    /\ Alive
    /\ w[t].pc = "exit"
    /\ w' = [w EXCEPT ![t].pc = "exited"]
    /\ UNCHANGED <<s, cs, m, r, env, h>>
    /\ UNCHANGED <<cat, clr>>

(* ---- the specification ---- *)

MainStep ==
    \/ init_instance
    \/ init_select
    \/ init_tracking_origins
    \/ init_compositor
    \/ init_shm
    \/ init_listen_socket
    \/ init_epoll
    \/ init_wait
    \/ main_loop_while
    \/ check_epoll
    \/ check_epoll_event
    \/ handle_listen
    \/ handle_listen_join
    \/ main_loop_render
    \/ update_layers_compare
    \/ update_layers_assign
    \/ update_layers_allocate
    \/ update_layers_loop
    \/ update_layers_layer
    \/ main_loop_finish
    \/ teardown_all

WorkerStep(t) ==
    \/ client_thread_handshake(t)
    \/ client_thread_swapchain_create(t)
    \/ client_thread_swapchain_destroy(t)
    \/ client_thread_end_frame(t)
    \/ client_thread_write_num_layers(t)
    \/ client_thread_write_layer(t)
    \/ client_thread_publish(t)
    \/ client_thread_disconnect(t)
    \/ client_thread_stop(t)
    \/ client_thread_exit(t)

Next ==
    \/ MainStep
    \/ \E t \in Tids : WorkerStep(t)
    \/ client_connect

Spec == Init /\ [][Next]_vars

\* The main thread runs whenever it can. A worker that has set
\* thread_stopping returns from its thread function; what a worker does
\* before that is up to its client.
FairSpec ==
    /\ Spec
    /\ WF_vars(MainStep)
    /\ \A t \in Tids : WF_vars(client_thread_exit(t))

(* ---- the shared catalogue: init_tracking_origins and init_shm ---- *)

\* the capacities of s->xdevs[] and s->xtracks[], of ism->inputs[] and of
\* ism->outputs[], scaled down, and the most inputs and outputs one device
\* of the explored arrays has
IPC_SERVER_NUM_XDEVS == 3
MAX_INPUTS == 3
MAX_OUTPUTS == 2
MaxDevInputs == 2
MaxDevOutputs == 1

\* (uint32_t)-1, the largest index there is: it is compared with slot
\* numbers only, and is written here as the largest integer TLC has
SENTINEL == 2147483647

DevIdx == 0 .. (IPC_SERVER_NUM_XDEVS - 1)

\* a tracking origin is known by its address; NULL is 0
NullOrigin == 0
Origins == 1 .. IPC_SERVER_NUM_XDEVS

\* what an origin holds (name, type, offset), and zero-filled memory
OriginRecord(xtrack) == [name |-> xtrack]

\* a slot of s->xdevs[]: NULL, or a device with its name, its string, its
\* origin, whether it has an hmd part, and its inputs and outputs
NullDevice ==
    [present |-> FALSE, name |-> 0, str |-> 0, origin |-> NullOrigin,
     hmd |-> FALSE, num_inputs |-> 0, num_outputs |-> 0]

Device(i, origin, hmd, ni, no) ==
    [present |-> TRUE, name |-> IF hmd THEN 1 ELSE 2, str |-> i + 1,
     origin |-> origin, hmd |-> hmd, num_inputs |-> ni, num_outputs |-> no]

\* xdev->inputs[k] and xdev->outputs[k] of the device in slot i, and a
\* zero-filled element
Input(i, k) == [kind |-> "input", dev |-> i + 1, k |-> k]
Output(i, k) == [kind |-> "output", dev |-> i + 1, k |-> k]
ZeroRecord == [kind |-> "zero", dev |-> 0, k |-> 0]

\* what a slot may hold: nothing, or a device with some origin and some
\* numbers of inputs and outputs
SlotChoices ==
    { [present |-> FALSE, origin |-> NullOrigin, ni |-> 0, no |-> 0] } \cup
    [present : {TRUE}, origin : Origins,
     ni : 0 .. MaxDevInputs, no : 0 .. MaxDevOutputs]

\* the device arrays explored: slot 0 holds the head device (init_all gives
\* up otherwise), every other slot is NULL or any device
DeviceArrays ==
    { [i \in DevIdx |->
          IF f[i].present
            THEN Device(i, f[i].origin, i = 0, f[i].ni, f[i].no)
            ELSE NullDevice] :
        f \in { g \in [DevIdx -> SlotChoices] : g[0].present } }

\* the fresh shared memory object: ftruncate zero-fills it
ZeroDevice ==
    [name |-> 0, str |-> 0, tracking_origin_index |-> 0,
     first_input_index |-> 0, num_inputs |-> 0,
     first_output_index |-> 0, num_outputs |-> 0]

ZeroIsm ==
    [itracks |-> [j \in DevIdx |-> OriginRecord(NullOrigin)],
     num_itracks |-> 0,
     idevs |-> [j \in DevIdx |-> ZeroDevice],
     num_idevs |-> 0,
     inputs |-> [a \in 0 .. (MAX_INPUTS - 1) |-> ZeroRecord],
     outputs |-> [a \in 0 .. (MAX_OUTPUTS - 1) |-> ZeroRecord],
     hmd |-> 0,
     sem |-> "none"]

\* init_tracking_origins, the test of the inner loop: compared by address
SameOrigin_mut(a, b) == FALSE

SameOrigin(a, b) == a = b

\* init_tracking_origins, the inner loop: the first slot of xtracks that is
\* empty or holds xtrack, IPC_SERVER_NUM_XDEVS if there is none
RECURSIVE FindSlot(_, _, _)
FindSlot(xtracks, xtrack, index) ==
    IF index >= IPC_SERVER_NUM_XDEVS THEN index
    ELSE IF xtracks[index] = NullOrigin THEN index
    ELSE IF SameOrigin(xtracks[index], xtrack) THEN index
    ELSE FindSlot(xtracks, xtrack, index + 1)

\* init_tracking_origins, the outer loop from slot i on
RECURSIVE TrackingOrigins(_, _, _)
TrackingOrigins(xdevs, xtracks, i) ==
    IF i >= IPC_SERVER_NUM_XDEVS THEN xtracks
    ELSE IF ~xdevs[i].present THEN TrackingOrigins(xdevs, xtracks, i + 1)
    ELSE LET index == FindSlot(xtracks, xdevs[i].origin, 0)
         IN  TrackingOrigins(
                 xdevs,
                 IF index < IPC_SERVER_NUM_XDEVS
                   THEN [xtracks EXCEPT ![index] = xdevs[i].origin]
                   ELSE xtracks,
                 i + 1)

\* init_shm, the first loop: every origin of xtracks is copied to the next
\* element of ism->itracks[]
RECURSIVE CopyOrigins(_, _, _, _)
CopyOrigins(xtracks, itracks, count, i) ==
    IF i >= IPC_SERVER_NUM_XDEVS
      THEN [itracks |-> itracks, num_itracks |-> count]
    ELSE IF xtracks[i] = NullOrigin
      THEN CopyOrigins(xtracks, itracks, count, i + 1)
    ELSE CopyOrigins(xtracks,
                     [itracks EXCEPT ![count] = OriginRecord(xtracks[i])],
                     count + 1, i + 1)

\* init_shm, the lookup of a device's origin in s->xtracks[]
RECURSIVE OriginIndex(_, _, _)
OriginIndex(xtracks, xtrack, k) ==
    IF k >= IPC_SERVER_NUM_XDEVS THEN SENTINEL
    ELSE IF xtrack # xtracks[k] THEN OriginIndex(xtracks, xtrack, k + 1)
    ELSE k

\* ism->inputs[input_index++] = xdev->inputs[k], for k from k on. The
\* array has MAX_INPUTS elements and the index is not tested: a store past
\* its end lands in ism->outputs[], which follows it in the structure, and
\* past that in what follows ism->outputs[].
RECURSIVE StoreInputs(_, _, _, _)
StoreInputs(st, i, num_inputs, k) ==
    IF k >= num_inputs THEN st
    ELSE LET a == st.input_index
             st1 == IF a < MAX_INPUTS
                      THEN [st EXCEPT !.inputs[a] = Input(i, k)]
                    ELSE IF a - MAX_INPUTS < MAX_OUTPUTS
                      THEN [st EXCEPT !.outputs[a - MAX_INPUTS] = Input(i, k),
                                      !.past_inputs = TRUE]
                    ELSE [st EXCEPT !.past_inputs = TRUE, !.past_all = TRUE]
         IN  StoreInputs([st1 EXCEPT !.input_index = a + 1],
                         i, num_inputs, k + 1)

\* ism->outputs[output_index++] = xdev->outputs[k], for k from k on
RECURSIVE StoreOutputs(_, _, _, _)
StoreOutputs(st, i, num_outputs, k) ==
    IF k >= num_outputs THEN st
    ELSE LET a == st.output_index
             st1 == IF a < MAX_OUTPUTS
                      THEN [st EXCEPT !.outputs[a] = Output(i, k)]
                      ELSE [st EXCEPT !.past_outputs = TRUE, !.past_all = TRUE]
         IN  StoreOutputs([st1 EXCEPT !.output_index = a + 1],
                          i, num_outputs, k + 1)

\* the first index and the number of the elements a device was given
Slice_mut(start, index) == [first |-> 0, num |-> index - start]

Slice(start, index) == [first |-> start, num |-> index - start]

\* init_shm, the body of the second loop for the device in slot i
PublishDevice(st, xtracks, xdev, i) ==
    LET c == st.count
        toi == OriginIndex(xtracks, xdev.origin, 0)
        st1 == [st EXCEPT !.count = c + 1,
                          !.idevs[c].name = xdev.name,
                          !.idevs[c].str = xdev.str,
                          !.idevs[c].tracking_origin_index = toi,
                          !.hmd = IF xdev.hmd THEN xdev.str ELSE @]
        st2 == StoreInputs(st1, i, xdev.num_inputs, 0)
        ins == Slice(st1.input_index, st2.input_index)
        st3 == IF st1.input_index # st2.input_index
                 THEN [st2 EXCEPT !.idevs[c].num_inputs = ins.num,
                                  !.idevs[c].first_input_index = ins.first]
                 ELSE st2
        st4 == StoreOutputs(st3, i, xdev.num_outputs, 0)
        outs == Slice(st3.output_index, st4.output_index)
    IN  IF st3.output_index # st4.output_index
          THEN [st4 EXCEPT !.idevs[c].num_outputs = outs.num,
                           !.idevs[c].first_output_index = outs.first]
          ELSE st4

\* init_shm, the second loop from slot i on
RECURSIVE PublishDevices(_, _, _, _)
PublishDevices(st, xtracks, xdevs, i) ==
    IF i >= IPC_SERVER_NUM_XDEVS THEN st
    ELSE IF ~xdevs[i].present THEN PublishDevices(st, xtracks, xdevs, i + 1)
    ELSE PublishDevices(PublishDevice(st, xtracks, xdevs[i], i),
                        xtracks, xdevs, i + 1)

\* init_shm after the mapping: the catalogue written to fresh memory, and
\* whether a store went past ism->inputs[], past ism->outputs[] or past both
InitShm(xdevs, xtracks) ==
    LET o == CopyOrigins(xtracks, ZeroIsm.itracks, 0, 0)
        st0 == [count |-> 0, input_index |-> 0, output_index |-> 0,
                idevs |-> ZeroIsm.idevs,
                inputs |-> ZeroIsm.inputs, outputs |-> ZeroIsm.outputs,
                hmd |-> 0,
                past_inputs |-> FALSE, past_outputs |-> FALSE,
                past_all |-> FALSE]
        st == PublishDevices(st0, xtracks, xdevs, 0)
    IN  [ism |-> [itracks |-> o.itracks, num_itracks |-> o.num_itracks,
                  idevs |-> st.idevs, num_idevs |-> st.count,
                  inputs |-> st.inputs, outputs |-> st.outputs,
                  hmd |-> st.hmd, sem |-> "shared"],
         input_index |-> st.input_index, output_index |-> st.output_index,
         past_inputs |-> st.past_inputs, past_outputs |-> st.past_outputs,
         past_all |-> st.past_all]

\* init_all is about to call init_tracking_origins: s->xtracks[] is empty
CatalogueInit ==
    /\ ServerInit(Run(FALSE, FALSE, 0, 0, "absent"))
    /\ \E xdevs \in DeviceArrays :
          cat = [pc |-> "init_tracking_origins",
                 xdevs |-> xdevs,
                 xtracks |-> [j \in DevIdx |-> NullOrigin],
                 ism |-> ZeroIsm,
                 input_index |-> 0, output_index |-> 0,
                 past_inputs |-> FALSE, past_outputs |-> FALSE]
    /\ clr = [pc |-> "unused"]

\* init_tracking_origins(s)
catalogue_tracking_origins ==
    /\ cat.pc = "init_tracking_origins"
    /\ cat' = [cat EXCEPT !.pc = "init_shm",
                          !.xtracks = TrackingOrigins(cat.xdevs, cat.xtracks, 0)]
    /\ UNCHANGED <<s, cs, m, w, r, env, h, clr>>

\* init_shm(s), from the mapping on: a store past both arrays may fault or
\* damage what lies there
catalogue_shm ==
    /\ cat.pc = "init_shm"
    /\ LET b == InitShm(cat.xdevs, cat.xtracks)
       IN  \E next \in (IF b.past_all THEN {"built", "crashed"}
                                      ELSE {"built"}) :
             cat' = [cat EXCEPT !.pc = next,
                                !.ism = b.ism,
                                !.input_index = b.input_index,
                                !.output_index = b.output_index,
                                !.past_inputs = b.past_inputs,
                                !.past_outputs = b.past_outputs]
    /\ UNCHANGED <<s, cs, m, w, r, env, h, clr>>

CatalogueNext ==
    \/ catalogue_tracking_origins
    \/ catalogue_shm

CatalogueSpec == CatalogueInit /\ [][CatalogueNext]_vars

(* ---- the layer renderer's end: comp_layer_renderer_destroy ---- *)

\* the Vulkan objects of the renderer in the order they are destroyed;
\* pipeline_cube exists with XRT_FEATURE_OPENXR_LAYER_CUBE only
Objects(cube) ==
    <<"pipeline_layout", "descriptor_set_layout",
      "descriptor_set_layout_equirect", "pipeline_premultiplied_alpha",
      "pipeline_unpremultiplied_alpha", "pipeline_equirect1",
      "pipeline_equirect2">> \o
    (IF cube THEN <<"pipeline_cube">> ELSE <<>>) \o
    <<"shader_modules", "vertex_buffer", "pipeline_cache">>

\* free(self); *ptr_clr = NULL;
Cleared_mut(self) == "freed"

Cleared(self) == "null"

\* a caller is about to call comp_layer_renderer_destroy(ptr_clr): ptr_clr
\* may be NULL, *ptr_clr may be NULL, vk->device may be VK_NULL_HANDLE, the
\* renderer holds some layers, and the queue may be in use by a submission
DestroyInit ==
    /\ ServerInit(Run(FALSE, FALSE, 0, 0, "absent"))
    /\ cat = [pc |-> "unused"]
    /\ \E ptr \in {"null", "valid"}, self \in {"null", "live"},
          device \in BOOLEAN, cube \in BOOLEAN,
          layer_count \in 0 .. MaxLayers, mutex \in {"free", "submit"} :
          /\ ptr = "null" => (self = "null" /\ layer_count = 0)
          /\ self = "null" => layer_count = 0
          /\ clr = [pc |-> "call", call |-> 1,
                    ptr |-> ptr, self |-> self, given |-> self,
                    device |-> device, cube |-> cube,
                    lr |-> [layer_count |-> layer_count, leaked |-> FALSE],
                    mutex |-> mutex, waited |-> "no",
                    todo |-> <<>>, destroyed |-> {},
                    early |-> FALSE, twice |-> FALSE]

\* something of the renderer is destroyed: noted if that happens before the
\* device was idle or with the queue mutex held, or for the second time
Destroys(c, what) ==
    [c EXCEPT !.destroyed = c.destroyed \cup {what},
              !.early = c.early \/ c.waited = "no" \/ c.mutex = "destroy",
              !.twice = c.twice \/ what \in c.destroyed]

\* the tests at the head of comp_layer_renderer_destroy
comp_layer_renderer_destroy_enter ==
    /\ clr.pc = "call"
    /\ IF clr.ptr = "null" \/ clr.self = "null" \/ ~clr.device
         THEN clr' = [clr EXCEPT !.pc = "returned"]
         ELSE clr' = [clr EXCEPT !.pc = "lock"]
    /\ UNCHANGED <<s, cs, m, w, r, env, h, cat>>

\* os_mutex_lock(&vk->queue_mutex)
comp_layer_renderer_destroy_lock ==
    /\ clr.pc = "lock"
    /\ clr.mutex = "free"
    /\ clr' = [clr EXCEPT !.pc = "wait", !.mutex = "destroy"]
    /\ UNCHANGED <<s, cs, m, w, r, env, h, cat>>

\* vk->vkDeviceWaitIdle(vk->device)
comp_layer_renderer_destroy_wait ==
    /\ clr.pc = "wait"
    /\ clr' = [clr EXCEPT !.pc = "unlock",
                          !.waited = IF clr.mutex = "destroy"
                                       THEN "locked" ELSE "unlocked"]
    /\ UNCHANGED <<s, cs, m, w, r, env, h, cat>>

\* os_mutex_unlock(&vk->queue_mutex)
comp_layer_renderer_destroy_unlock ==
    /\ clr.pc = "unlock"
    /\ clr' = [clr EXCEPT !.pc = "layers", !.mutex = "free"]
    /\ UNCHANGED <<s, cs, m, w, r, env, h, cat>>

\* comp_layer_renderer_destroy_layers(self)
comp_layer_renderer_destroy_its_layers ==
    /\ clr.pc = "layers"
    /\ clr' = [Destroys(clr, "layers") EXCEPT
                  !.pc = "objects",
                  !.lr = comp_layer_renderer_destroy_layers(clr.lr),
                  !.todo = Objects(clr.cube)]
    /\ UNCHANGED <<s, cs, m, w, r, env, h, cat>>

\* the vkDestroy... calls and vk_buffer_destroy, one after the other
comp_layer_renderer_destroy_object ==
    /\ clr.pc = "objects"
    /\ clr.todo # <<>>
    /\ clr' = [Destroys(clr, Head(clr.todo)) EXCEPT !.todo = Tail(clr.todo)]
    /\ UNCHANGED <<s, cs, m, w, r, env, h, cat>>

\* free(self); *ptr_clr = NULL; and the function returns
comp_layer_renderer_destroy_free ==
    /\ clr.pc = "objects"
    /\ clr.todo = <<>>
    /\ clr' = [clr EXCEPT !.pc = "returned", !.self = Cleared(clr.self)]
    /\ UNCHANGED <<s, cs, m, w, r, env, h, cat>>

\* the caller calls comp_layer_renderer_destroy with the same pointer again
comp_layer_renderer_destroy_again ==
    /\ clr.pc = "returned"
    /\ clr.call = 1
    /\ clr' = [clr EXCEPT !.pc = "call", !.call = 2]
    /\ UNCHANGED <<s, cs, m, w, r, env, h, cat>>

\* another thread that submits to the queue takes the mutex for it
queue_submit_begin ==
    /\ clr.pc # "unused"
    /\ clr.mutex = "free"
    /\ clr' = [clr EXCEPT !.mutex = "submit"]
    /\ UNCHANGED <<s, cs, m, w, r, env, h, cat>>

queue_submit_end ==
    /\ clr.mutex = "submit"
    /\ clr' = [clr EXCEPT !.mutex = "free"]
    /\ UNCHANGED <<s, cs, m, w, r, env, h, cat>>

DestroyNext ==
    \/ comp_layer_renderer_destroy_enter
    \/ comp_layer_renderer_destroy_lock
    \/ comp_layer_renderer_destroy_wait
    \/ comp_layer_renderer_destroy_unlock
    \/ comp_layer_renderer_destroy_its_layers
    \/ comp_layer_renderer_destroy_object
    \/ comp_layer_renderer_destroy_free
    \/ comp_layer_renderer_destroy_again
    \/ queue_submit_begin
    \/ queue_submit_end

DestroySpec == DestroyInit /\ [][DestroyNext]_vars

(* ---- _update_layers applied to a submitted frame ---- *)

\* every descriptor a client can put into a layer: any tag, any swapchain
\* ids up to the first one past active_client->xscs[]
AnyDescs ==
    { Desc(t, a, b) : t \in {"proj", "quad", "other"},
                      a \in 0 .. NumSlots, b \in 0 .. NumSlots }

\* the frames of n layers
Frames(n) ==
    { f \in [LayerIdx -> AnyDescs] : \A i \in LayerIdx : i >= n => f[i] = ZeroDesc }

\* main_loop has found an active client with a swapchain and a frame to
\* render, and calls _update_layers; no client acts meanwhile
ReconcileInit ==
    /\ cat = [pc |-> "unused"]
    /\ clr = [pc |-> "unused"]
    /\ s = [NewServer(Run(FALSE, FALSE, 1, 1, "absent")) EXCEPT
               !.xinst = TRUE, !.xdevs = {0}, !.xcfd = TRUE, !.xc = TRUE,
               !.ism = TRUE, !.ism_fd = TRUE, !.epoll_fd = TRUE, !.iw = TRUE,
               !.listen_socket = ListenFd, !.socket_filename = TRUE,
               !.thread_started = TRUE, !.thread = 1]
    /\ env = [NewEnv(Run(FALSE, FALSE, 1, 1, "absent")) EXCEPT
                 !.conns = 0, !.frames = 0, !.threads = 1,
                 !.next_fd = FirstClientFd + 1, !.open = {FirstClientFd},
                 !.sock_file = "ours", !.listen_fds = 0,
                 !.registered = {StdinFd, ListenFd}]
    /\ w = [NewWorkers EXCEPT ![1].pc = "serve"]
    /\ h = [NewHistory EXCEPT !.branch = "rendering", !.reconcile = "started"]
    /\ \E xscs \in [Slots -> BOOLEAN] \ {[k \in Slots |-> FALSE]},
          n \in 0 .. MaxLayers, held \in 0 .. MaxLayers :
       \E f \in Frames(n) :
          /\ cs = [NewSession EXCEPT
                      !.ipc_socket_fd = FirstClientFd,
                      !.active = TRUE,
                      !.num_swapchains = Cardinality({k \in Slots : xscs[k]}),
                      !.xscs = xscs,
                      !.rendering = TRUE,
                      !.num_layers = n,
                      !.layers = [i \in LayerIdx |->
                                     Cell(f[i], IF i < n THEN "latest"
                                                         ELSE "never")]]
          /\ m = [NewMain EXCEPT !.pc = "upd_cmp", !.num_layers = held]
          /\ r = [NewRenderer EXCEPT !.layer_count = held]

ReconcileNext ==
    \/ update_layers_compare
    \/ update_layers_assign
    \/ update_layers_allocate
    \/ update_layers_loop
    \/ update_layers_layer

ReconcileSpec == ReconcileInit /\ [][ReconcileNext]_vars

(* ---- C1 ---- *)

\* a worker that was started and has not set thread_stopping
Serving(t) == w[t].pc \in {"handshake", "serve", "fill", "stop"}

\* C1: in every reachable state at most one worker thread is started and
\* not stopping: handle_listen never starts a second one beside it.
C1_AtMostOneWorker ==
    Cardinality({t \in Tids : Serving(t)}) <= 1

\* a second worker serves after the first one was joined
C1_Witness ==
    /\ w[1].pc = "joined"
    /\ w[2].pc = "serve"

(* ---- C2 ---- *)

\* the states of the main thread inside _update_layers
UpdPcs == {"upd_cmp", "upd_assign", "upd_alloc", "upd_loop", "upd_layer"}

\* the main thread takes a step of _update_layers: each one reads
\* render_state.num_layers or render_state.layers[]
MainReads == m.pc \in UpdPcs /\ m' # m

\* a worker stores render_state.num_layers or a cell of render_state.layers[]
WorkerWrites ==
    \E t \in Tids : w[t].pc = "fill" /\ w'[t].pc = "fill" /\ w'[t] # w[t]

\* C2: the main thread reads num_layers and layers[] only in an iteration
\* in which it saw rendering true, and the worker never writes num_layers or
\* layers[] while rendering is true.
C2_HandoffExclusive ==
    [][ /\ MainReads => (h.branch = "rendering" /\ cs.rendering)
        /\ WorkerWrites => ~cs.rendering ]_vars

(* ---- C3 ---- *)

\* handle_listen runs and accept returns a new fd
Accepts ==
    /\ m.pc = "events"
    /\ m.evs # <<>>
    /\ Head(m.evs) = s.listen_socket
    /\ env'.next_fd # env.next_fd

\* C3: a connection accepted while a worker is started and not stopping is
\* closed at once; no thread is started and the session (socket fd, active)
\* and the server (thread_started, thread_stopping, running) are unchanged.
C3_RejectLeavesSession ==
    [][ (Accepts /\ s.thread_started /\ ~s.thread_stopping)
          => /\ env.next_fd \in env'.closed
             /\ env.next_fd \notin env'.open
             /\ w' = w
             /\ cs' = cs
             /\ s' = s ]_vars

\* a connection was turned away and the worker of the first one serves
C3_Witness ==
    /\ env.closed # {}
    /\ w[1].pc = "serve"
    /\ cs.ipc_socket_fd = FirstClientFd

(* ---- C4 ---- *)

\* handle_listen returns from os_thread_join and goes on
Joins == m.pc = "join" /\ m'.pc # "join"

\* the client of the current worker has gone and nothing has reaped it yet
Disconnected == \E t \in Tids : w[t].pc \in {"stop", "exit", "exited"}

\* what handle_listen does with a connection it accepts while
\* thread_stopping is set: it keeps the fd and joins; when the join returns
\* the old worker has exited and is reaped, thread_stopping is cleared, the
\* session's fd is the new one and the new worker is started
JoinThenRestart ==
    /\ (Accepts /\ s.thread_stopping)
          => /\ m'.pc = "join"
             /\ m'.fd = env.next_fd
             /\ env.next_fd \in env'.open
             /\ w' = w
    /\ Joins
          => /\ w[s.thread].pc = "exited"
             /\ \A t \in Tids : ~Serving(t)
             /\ w'[s.thread].pc = "joined"
             /\ ~s'.thread_stopping
             /\ s'.thread_started
             /\ cs'.ipc_socket_fd = m.fd
             /\ s'.thread # s.thread
             /\ w'[s'.thread].pc = "handshake"

\* C4 as amended: a connection accepted while thread_stopping is true is
\* not rejected: the old worker is joined and destroyed before the new one
\* is started, thread_stopping is cleared and the session's fd becomes the
\* new fd; so once the worker of a disconnected client has set
\* thread_stopping, the next connecting client is accepted and served.
C4_JoinThenRestart == [][JoinThenRestart]_vars

\* C4 as claimed: as above, and after a client has disconnected the next
\* connection accepted is never rejected.
C4_Claim ==
    [][ /\ JoinThenRestart
        /\ (Accepts /\ Disconnected) => env'.closed = env.closed ]_vars

\* the second client is served on its own fd after the join of the first
C4_Witness ==
    /\ w[1].pc = "joined"
    /\ w[2].pc \in {"handshake", "serve"}
    /\ cs.ipc_socket_fd = FirstClientFd + 1
    /\ ~s.thread_stopping
    /\ env.closed = {}

(* ---- C5 ---- *)

\* C5: the main loop never reconciles a frame after it has reconciled one
\* submitted later: once it has taken a cell written by the latest frame it
\* takes no cell that an older frame wrote.
C5_SubmissionOrder ==
    ~ /\ m.pc = "upd_layer"
      /\ h.saw_latest
      /\ cs.layers[m.i].age = "older"

(* ---- C6 ---- *)

\* C6: when the reconciliation of an iteration succeeds the main loop
\* clears rendering and draws exactly once in that iteration; it clears
\* rendering only after a successful reconciliation, and it reconciles
\* only while rendering is true.
C6_ClearsOnSuccess ==
    [][ /\ (h.reconcile # "ok" /\ h'.reconcile = "ok") => m'.pc = "finish"
        /\ m.pc = "finish"
              => /\ h.reconcile = "ok" /\ h.branch = "rendering"
                 /\ h.draws = 0
                 /\ m' # m => /\ ~cs'.rendering
                              /\ h'.draws = 1
                              /\ m'.pc = "while"
        /\ (cs.rendering /\ ~cs'.rendering)
              => (m.pc = "finish" /\ h.reconcile = "ok")
        /\ m'.pc \in UpdPcs => cs'.rendering ]_vars

\* an iteration ended after a successful reconciliation
C6_Witness ==
    /\ m.pc = "while"
    /\ h.branch = "rendering"
    /\ h.reconcile = "ok"
    /\ h.cleared
    /\ h.draws = 1

(* ---- C7 ---- *)

\* C7: an iteration whose reconciliation meets a null swapchain draws
\* nothing, and the frame is skipped: the loop does not come back to the
\* same failure in the next iteration when the client has done nothing in
\* between (it draws instead).
C7_SkipsFrame ==
    /\ h.reconcile = "failed" => h.draws = 0
    /\ h.fail_streak < 2

(* ---- C8 ---- *)

\* C8: an iteration without a client to render leaves the renderer with no
\* layers and draws once; a draw uses the idle colour exactly when the
\* renderer has no layers.
C8_IdleDraws ==
    /\ (m.pc = "while" /\ h.branch = "idle")
          => (h.draws = 1 /\ r.layer_count = 0)
    /\ h.draws > 0 => (h.colour = "idle" <=> r.layer_count = 0)

(* ---- C9 ---- *)

\* C9: a reconciliation that finds num_layers different from the tracked
\* count destroys the layers and allocates exactly that num_layers before
\* any layer is set; one that finds them equal leaves the layers alone.
C9_ResizeExact ==
    [][ /\ (m.pc = "upd_alloc" /\ m' # m)
              => (r.layer_count = 0 /\ r'.layer_count = h.first_n)
        /\ (m'.pc = "upd_layer" /\ h'.resized)
              => r'.layer_count = h'.first_n
        /\ (m.pc \in UpdPcs /\ ~h'.resized) => r' = r ]_vars

(* ---- C10 ---- *)

\* C10: once running is false the loop starts no new iteration, main_loop
\* returns and teardown_all runs.
C10_Terminates ==
    /\ [][ (m.pc = "while" /\ ~s.running) => m'.pc # "check_epoll" ]_vars
    /\ (~s.running) ~> (m.pc = "done" /\ s.torn_down)

(* ---- C11 ---- *)

\* a worker whose thread function has not returned
Running(t) == w[t].pc \in {"handshake", "serve", "fill", "stop", "exit"}

\* C11: teardown joins the worker before it destroys the compositor: once
\* the compositor is destroyed, and after teardown, no worker is running.
C11_TeardownJoins ==
    (s.torn_down \/ env.k["compositor"] = "released")
        => \A t \in Tids : ~Running(t)

(* ---- C12 ---- *)

\* what the steps of init_all acquire, in the order of the steps
StepOrder ==
    << "instance", "select", "xdevs0", "compositor", "shm", "listen",
       "epoll", "wait" >>

Acquires(step) ==
    CASE step = "instance" -> {"instance"}
      [] step = "select" -> {"devices"}
      [] step = "compositor" -> {"compositor"}
      [] step = "shm" -> {"shm_fd", "shm_map"}
      [] step = "listen" -> {"listen", "sock_name"}
      [] step = "epoll" -> {"epoll"}
      [] step = "wait" -> {"wait", "uvar"}
      [] OTHER -> {}

StepIndex(step) == CHOOSE i \in DOMAIN StepOrder : StepOrder[i] = step

\* C12: when a step of init_all fails no later step runs, teardown_all runs
\* exactly once and nothing that was acquired is still held; the compositor
\* created before the failing step is destroyed.
C12_InitFailureReleases ==
    h.failed_at # "none"
        => /\ m.pc = "done"
           /\ h.teardowns = 1
           /\ \A i \in DOMAIN StepOrder :
                 i > StepIndex(h.failed_at)
                    => \A x \in Acquires(StepOrder[i]) : env.k[x] = "none"
           /\ \A x \in ResNames : env.k[x] \in {"none", "released"}

(* ---- C13 ---- *)

\* C13: when the server has ended, the socket path has been unlinked if and
\* only if this process bound it, and what was unlinked was its own socket:
\* never the one inherited from a supervisor or owned by another instance.
C13_UnlinkIffBound ==
    m.pc = "done"
        => /\ (env.unlinked # "none") <=> (env.k["sock_name"] # "none")
           /\ env.unlinked \in {"none", "ours"}
           /\ (s.launched_by_socket \/ env.k["sock_name"] = "none")
                 => env.unlinked = "none"

(* ---- C14 ---- *)

\* C14: when a server that no supervisor launched has ended, whatever the
\* step of init_all that failed, no socket file that it bound is on disk.
C14_NoSocketFileLeft ==
    (m.pc = "done" /\ ~env.supervisor) => env.sock_file # "ours"

(* ---- C15 ---- *)

\* init_shm has returned
ShmBuilt ==
    /\ m.pc \notin {"init_instance", "init_select", "init_tracking",
                    "init_compositor", "init_shm", "crashed"}
    /\ h.failed_at \notin {"instance", "select", "xdevs0", "compositor"}

\* C15: once init_shm has returned, with success or after a failure of
\* ftruncate or mmap, the name /monado_shm does not exist.
C15_ShmNameUnlinked ==
    ShmBuilt => ~env.shm_name

(* ---- C16 ---- *)

\* C16: after the teardown that follows a successful init, the listener, the
\* epoll fd, the shared-memory fd and mapping and the sockets of the clients
\* have all been released, each once.
C16_AllReleased ==
    (m.pc = "done" /\ h.failed_at = "none")
        => /\ \A x \in {"listen", "epoll", "shm_fd", "shm_map"} :
                 env.k[x] = "released"
           /\ env.open = {}

(* ---- C17 ---- *)

\* C17: in every state of the server, whether init_all went through or
\* stopped at some step, teardown_all run twice leaves what teardown_all run
\* once leaves: the second run closes, unlinks and destroys nothing.
C17_TeardownIdempotent ==
    LET s1 == TeardownS(s)
        e1 == TeardownEnv(s, env)
    IN  /\ TeardownS(s1) = s1
        /\ TeardownEnv(s1, e1) = e1

\* teardown has closed the listener and unlinked the socket it had bound
C17_Witness ==
    /\ m.pc = "done"
    /\ h.failed_at = "none"
    /\ env.k["listen"] = "released"
    /\ env.unlinked = "ours"
    /\ s.listen_socket = NoFd

(* ---- C18 ---- *)

\* C18: ipc_server_main returns 0 exactly when init_all succeeded and the
\* loop ended for a reason other than a failure of accept or epoll_wait.
C18_ExitCode ==
    m.pc = "done"
        => (m.ret = 0 <=> (h.failed_at = "none" /\ h.fatal = "none"))

(* ---- C19 ---- *)

\* handle_listen runs: the event at hand is the listener's
Listens ==
    /\ m.pc = "events"
    /\ m.evs # <<>>
    /\ Head(m.evs) = s.listen_socket
    /\ m' # m

\* C19: a failed accept clears running; after it accept is not called
\* again, and at the next loop test the main loop exits.
C19_AcceptFatal ==
    [][ /\ (h.fatal # "accept" /\ h'.fatal = "accept") => ~s'.running
        /\ h.fatal = "accept"
              => /\ ~s.running
                 /\ ~Listens
                 /\ (m.pc = "while" /\ m' # m) => m'.pc = "returned" ]_vars

\* main_loop has returned after a failed accept
C19_Witness ==
    /\ h.fatal = "accept"
    /\ m.pc = "returned"
    /\ ~s.running

(* ---- C20 ---- *)

\* the client of the current worker has gone
Gone == s.thread_started /\ w[s.thread].pc \in {"stop", "exit", "exited"}

\* C20: when the client disconnects the worker clears active and sets
\* thread_stopping; with exit_on_disconnect running becomes false and the
\* server leaves the main loop and tears down; without it running is left
\* alone and an iteration that finds the client gone destroys its layers and
\* draws an idle frame.
C20_Disconnect ==
    /\ [](Gone => ~cs.active)
    /\ [][ (\E t \in Tids : w[t].pc = "stop" /\ w'[t].pc = "exit")
              => /\ s'.thread_stopping
                 /\ s'.running = (s.running /\ ~s.exit_on_disconnect) ]_vars
    /\ []((Gone /\ m.pc = "while" /\ h.branch = "idle")
              => (h.draws = 1 /\ r.layer_count = 0 /\ h.colour = "idle"))
    /\ (Gone /\ s.thread_stopping /\ s.exit_on_disconnect)
          ~> (m.pc = "done" /\ s.torn_down)

(* ---- C21 ---- *)

\* C21: with more than one inherited listening fd initialisation fails with
\* no listener adopted or bound and no socket file created, and teardown
\* runs; with exactly one, that fd is the listener, launched_by_socket is
\* true and no bind is performed; with none, the process binds the
\* well-known path itself and launched_by_socket stays false.
C21_InheritedFds ==
    /\ env.listen_fds > 1
          => /\ m.pc = "done" /\ m.ret # 0
             /\ h.failed_at = "listen" /\ h.teardowns = 1
             /\ env.k["listen"] = "none" /\ env.k["sock_name"] = "none"
             /\ env.sock_file # "ours"
             /\ ~s.launched_by_socket /\ ~HasListenSocket(s)
    /\ env.listen_fds = 1
          => /\ s.launched_by_socket
             /\ s.listen_socket = ListenFd \/ h.teardowns > 0
             /\ env.k["listen"] # "none" /\ env.k["sock_name"] = "none"
             /\ env.sock_file # "ours" /\ ~s.socket_filename
    /\ env.listen_fds = 0
          => /\ ~s.launched_by_socket
             /\ h.failed_at # "listen"
                   => /\ s.socket_filename \/ h.teardowns > 0
                      /\ env.sock_file = "ours" \/ h.teardowns > 0
                      /\ env.k["sock_name"] # "none"
                      /\ env.k["listen"] # "none"

\* the supervisor passed two fds and init_all has given up
C21_Witness ==
    /\ env.listen_fds > 1
    /\ m.pc = "done"
    /\ h.failed_at = "listen"

(* ---- C22 ---- *)

\* C22: when shm_open, ftruncate or mmap fails (mmap reporting it with its
\* failure sentinel), init_shm returns an error without storing through or
\* reading from the mapping, and init_all runs teardown_all and returns
\* failure.
C22_ShmFailureReported ==
    env.shm_fault # "none"
       => /\ m.pc = "done" /\ m.ret # 0
          /\ h.failed_at = "shm" /\ h.teardowns = 1
          /\ ~s.ism

(* ---- C23 ---- *)

\* init_shm has returned
Built == cat.pc = "built"

\* the slots of the device array that hold a device
PresentSlots == { i \in DevIdx : cat.xdevs[i].present }

\* the slot of the device that the j-th published entry stands for
SlotOf(j) ==
    CHOOSE i \in PresentSlots :
        Cardinality({ i2 \in PresentSlots : i2 < i }) = j

PublishedIdx == 0 .. (cat.ism.num_idevs - 1)

\* C23: for every device array with any sharing of tracking origins and any
\* null slots, after the build every published device has
\* tracking_origin_index < num_itracks, the published origin at that index
\* is the copy of that device's own origin, and each distinct origin is
\* published once.
C23_OriginIndexValid ==
    Built =>
       /\ cat.ism.num_idevs = Cardinality(PresentSlots)
       /\ \A j \in PublishedIdx :
             LET toi == cat.ism.idevs[j].tracking_origin_index
             IN  /\ toi < cat.ism.num_itracks
                 /\ cat.ism.itracks[toi] =
                       OriginRecord(cat.xdevs[SlotOf(j)].origin)
       /\ \A i \in PresentSlots :
             Cardinality({ k \in 0 .. (cat.ism.num_itracks - 1) :
                             cat.ism.itracks[k] =
                                OriginRecord(cat.xdevs[i].origin) }) = 1
       /\ cat.ism.num_itracks =
             Cardinality({ cat.xdevs[i].origin : i \in PresentSlots })

\* built from an array with a null slot, in which two devices share an
\* origin or not: here the devices around the null slot differ in it
C23_Witness ==
    /\ Built
    /\ ~cat.xdevs[1].present
    /\ cat.xdevs[2].present
    /\ cat.xdevs[2].origin # cat.xdevs[0].origin
    /\ cat.ism.num_itracks = 2
    /\ cat.ism.idevs[1].tracking_origin_index = 1

(* ---- C24 ---- *)

\* the elements of a flat array that a published device refers to
InputRange(d) == d.first_input_index .. (d.first_input_index + d.num_inputs - 1)
OutputRange(d) ==
    d.first_output_index .. (d.first_output_index + d.num_outputs - 1)

\* C24: after the build, for every published device first_input_index +
\* num_inputs is at most the number of inputs written, likewise for the
\* outputs, and the input ranges (and the output ranges) of two devices do
\* not overlap, devices without inputs or outputs included.
C24_RangesDisjoint ==
    Built =>
       /\ \A j \in PublishedIdx :
             LET d == cat.ism.idevs[j]
             IN  /\ d.first_input_index + d.num_inputs <= cat.input_index
                 /\ d.first_output_index + d.num_outputs <= cat.output_index
       /\ \A j1, j2 \in PublishedIdx :
             j1 # j2 =>
                /\ InputRange(cat.ism.idevs[j1]) \cap
                      InputRange(cat.ism.idevs[j2]) = {}
                /\ OutputRange(cat.ism.idevs[j1]) \cap
                      OutputRange(cat.ism.idevs[j2]) = {}

\* three devices: the middle one has no inputs, the last one no outputs
C24_Witness ==
    /\ Built
    /\ cat.ism.num_idevs = 3
    /\ cat.xdevs[0].num_inputs > 0 /\ cat.xdevs[0].num_outputs > 0
    /\ cat.xdevs[1].num_inputs = 0 /\ cat.xdevs[1].num_outputs > 0
    /\ cat.xdevs[2].num_inputs > 0 /\ cat.xdevs[2].num_outputs = 0

(* ---- C25 ---- *)

\* C25: for any device array with any numbers of inputs and outputs per
\* device the build never stores past the end of ism->inputs[] or of
\* ism->outputs[]: first_input_index + num_inputs <= MAX_INPUTS and
\* first_output_index + num_outputs <= MAX_OUTPUTS for every device, and
\* there are at most IPC_SERVER_NUM_XDEVS distinct origins.
C25_WithinCapacity ==
    cat.pc \in {"built", "crashed"} =>
       /\ ~cat.past_inputs
       /\ ~cat.past_outputs
       /\ \A j \in PublishedIdx :
             LET d == cat.ism.idevs[j]
             IN  /\ d.first_input_index + d.num_inputs <= MAX_INPUTS
                 /\ d.first_output_index + d.num_outputs <= MAX_OUTPUTS
       /\ cat.ism.num_itracks <= IPC_SERVER_NUM_XDEVS

(* ---- C26 ---- *)

\* C26: after the build, reading the catalogue back yields what the device
\* array held: num_idevs is the number of devices, the entries follow the
\* order of the array without gaps and carry the device's name and string,
\* and for a device with n inputs inputs[first_input_index + k] is its
\* k-th input for all k < n, likewise for the outputs.
C26_ReadBack ==
    Built =>
       /\ cat.ism.num_idevs = Cardinality(PresentSlots)
       /\ \A j \in PublishedIdx :
             LET d == cat.ism.idevs[j]
                 i == SlotOf(j)
                 x == cat.xdevs[i]
             IN  /\ d.name = x.name /\ d.str = x.str
                 /\ \A k \in 0 .. (x.num_inputs - 1) :
                       /\ d.first_input_index + k < MAX_INPUTS
                       /\ cat.ism.inputs[d.first_input_index + k] = Input(i, k)
                 /\ \A k \in 0 .. (x.num_outputs - 1) :
                       /\ d.first_output_index + k < MAX_OUTPUTS
                       /\ cat.ism.outputs[d.first_output_index + k] =
                             Output(i, k)

(* ---- C27 ---- *)

\* the events of the current poll that are still to be handled
Reported == { m.evs[n] : n \in 1 .. Len(m.evs) }

\* epoll_wait has reported stdin and the loop has not come to it yet
StdinReported == m.pc \in {"events", "join"} /\ StdinFd \in Reported

\* C27: stdin is registered with epoll exactly when the server was not
\* launched by a supervisor; when it is registered, stdin reported by a poll
\* makes running false in that poll; launched by a supervisor, a poll
\* reports nothing but the listener and stdin never changes running.
C27_StdinRegistered ==
    /\ [](env.registered # {}
             => (StdinFd \in env.registered <=> ~s.launched_by_socket))
    /\ [][ (StdinReported /\ m' # m)
              => \/ StdinReported'
                 \/ ~s'.running /\ m'.pc = "render" ]_vars
    /\ [](s.launched_by_socket
             => (StdinFd \notin Reported /\ Reported \subseteq {s.listen_socket}))

\* a poll has reported a pending connection and then stdin
C27_Witness ==
    /\ ~s.launched_by_socket
    /\ m.pc = "events"
    /\ m.evs = <<s.listen_socket, StdinFd>>

(* ---- C28 ---- *)

\* everything comp_layer_renderer_destroy destroys
AllDestroyed ==
    {"layers"} \cup { Objects(clr.cube)[n] : n \in 1 .. Len(Objects(clr.cube)) }

\* C28: with a valid device the queue mutex is taken, vkDeviceWaitIdle is
\* called while it is held, the mutex is released, and only then the
\* layers, pipelines, layouts, shader modules, buffers and the cache are
\* destroyed; on return the mutex is not held and the caller's pointer is
\* null, and a second destroy of the same pointer does nothing.
C28_DestroyOrder ==
    /\ [](clr.waited # "unlocked")
    /\ [](clr.destroyed # {} => (clr.waited = "locked" /\ ~clr.early))
    /\ []((clr.pc = "returned" /\ clr.device /\ clr.given = "live")
             => /\ clr.mutex # "destroy"
                /\ clr.self = "null"
                /\ clr.destroyed = AllDestroyed
                /\ clr.lr.layer_count = 0)
    /\ [](~clr.twice)
    /\ [](clr.call = 2 => clr.mutex # "destroy")
    /\ [][ clr.call = 2
              => [clr' EXCEPT !.pc = clr.pc, !.mutex = clr.mutex] = clr ]_vars

\* a renderer with layers was destroyed on a valid device, and the second
\* call with the same pointer has returned
C28_Witness ==
    /\ clr.pc = "returned"
    /\ clr.call = 2
    /\ clr.device /\ clr.given = "live"
    /\ clr.waited = "locked"
    /\ clr.destroyed = AllDestroyed

(* ---- C29 ---- *)

\* C29: for any swapchain id in a layer, ids at or above the size of the
\* session's swapchain array included, reconciliation either fails the
\* frame or uses a slot that exists and is populated; it never indexes
\* xscs[] past its end.
C29_SlotsInBounds ==
    /\ ~h.past_xscs
    /\ (m.pc = "upd_loop" /\ h.last_set # "none")
          => LET d == cs.layers[m.i - 1].d
             IN  /\ d.sc0 \in Slots /\ cs.xscs[d.sc0]
                 /\ d.type = "proj" => (d.sc1 \in Slots /\ cs.xscs[d.sc1])

(* ---- C30 ---- *)

\* C30: in every successful reconciliation each layer index below
\* num_layers gets exactly one set-layer call, the one of its type tag,
\* whatever the type (stereo projection, quad or another kind): no
\* allocated layer is left unpopulated.
C30_EveryLayerSet ==
    /\ [][ (m.pc = "upd_layer" /\ m' # m /\ m'.pc = "upd_loop")
              => (h'.last_set = cs.layers[m.i].d.type /\ m'.i = m.i + 1) ]_vars
    /\ [][ (m.pc = "upd_loop" /\ m' # m /\ m'.pc = "finish")
              => m.i = r.layer_count ]_vars

(* ---- C31 ---- *)

\* the step of handle_listen in which accept fails
AcceptFails == m.pc = "events" /\ m' # m /\ h.fatal # "accept" /\ h'.fatal = "accept"

\* C31: when accept fails in handle_listen no worker thread is started,
\* thread_started and the session's socket fd stay as they are, no worker
\* is joined and nothing is closed: the only change is that running becomes
\* false.
C31_AcceptFailureOnlyStops ==
    [][ AcceptFails
           => /\ s' = [s EXCEPT !.running = FALSE]
              /\ cs' = cs
              /\ w' = w
              /\ env' = env
              /\ m'.pc # "join" ]_vars

(* ---- C32 ---- *)

\* a worker is in the middle of a submission of n layers and has not stored
\* its num_layers yet, and n is not the num_layers this reconciliation read
\* at line 590: what the reconciliation read was stored by an earlier frame
NumLayersOfOtherFrame ==
    \E t \in Tids :
        w[t].pc = "fill" /\ ~w[t].num_done /\ w[t].n # h.first_n

\* the main thread executes the body of the for loop of _update_layers: it
\* reads layers[i]
ReadsLayer == m.pc = "upd_layer" /\ m' # m

\* C32: the layer stack one reconciliation reads (num_layers and every layer
\* descriptor) is that of one submitted frame, never a mixture of two: a
\* reconciliation that read the num_layers of one frame reads no descriptor
\* that a frame with another num_layers wrote.
C32_OneFramePerReconciliation ==
    [][ ReadsLayer
           => ~ (cs.layers[m.i].age = "latest" /\ NumLayersOfOtherFrame) ]_vars

(* ---- C33 ---- *)

\* the frame submitted last is complete and pending: the client is active,
\* no worker is writing, rendering is true, and every one of its
\* num_layers > 0 cells is its own and names swapchains that are there
FramePending ==
    /\ cs.active
    /\ cs.rendering
    /\ \A t \in Tids : w[t].pc # "fill"
    /\ cs.num_layers > 0
    /\ \A i \in LayerIdx :
          i < cs.num_layers
             => /\ cs.layers[i].age = "latest"
                /\ cs.layers[i].d.type # "other"
                /\ SwapchainsValid(cs.xscs, cs.layers[i].d, FALSE)

\* the main loop stores render_state->rendering = false (line 669)
StoresRenderingFalse == m.pc = "finish" /\ m' # m

\* C33: a frame after which no further frame is submitted is reconciled in
\* the end: the store of rendering = false that ends the reconciliation of
\* an earlier frame never discards a pending frame of which the main loop
\* has read no layer.
C33_NoFrameDiscarded ==
    [][ StoresRenderingFalse => ~ (FramePending /\ ~h.saw_latest) ]_vars

(* ---- C34 ---- *)

\* the main loop is at the test of while (vs->running): an iteration starts
IterationStarts == m.pc = "while"

\* C34: whenever an iteration of the main loop starts, the layer count the
\* main loop tracks is the renderer's layer_count, also after a failed
\* reconciliation and after the client went inactive; and allocate_layers is
\* only called on a renderer that holds no layers, so that no layer array
\* is overwritten before it was destroyed.
C34_TrackedCountIsLayerCount ==
    /\ IterationStarts => m.num_layers = r.layer_count
    /\ ~r.leaked

====
